---------------------------- MODULE Spec2Model ----------------------------
(***************************************************************************)
(* SmartCare Booking backend (src/backend/main.py): the booking window,    *)
(* the slot catalog and the appointment ledger, with every request handler *)
(* split at its database statements (each statement is one atomic step of  *)
(* SQLite; nothing in the handlers spans two statements with a             *)
(* transaction).                                                           *)
(*                                                                         *)
(* Text is modelled as text: a string is a sequence of one-character       *)
(* strings, so that strptime, strftime and the comparison of stored        *)
(* strings are computed and not assumed.  A date object is <<y, m, d>>.    *)
(***************************************************************************)
EXTENDS Integers, Sequences, FiniteSets, TLC

(***************************************************************************)
(* Bounds of the model.                                                    *)
(***************************************************************************)
\* number of request handlers that may run at the same time
NumProcs == 2
\* number of appointments that may be inserted on top of the initial ledger
MaxAppts == 2
\* number of midnights that may pass during a run
MaxDays == 1
\* number of calendar years the window check is exercised over
MaxYears == 2

(***************************************************************************)
(* Program constants.                                                      *)
(***************************************************************************)
ALLOWED_MONTHS_AHEAD == 3
WORK_START_HOUR == 9
WORK_END_HOUR == 17
SLOT_MINUTES == 30

\* the day the runs of the ledger start on, and the first year of the
\* window check
Today0 == <<2026, 11, 5>>
Year0 == 2026

(***************************************************************************)
(* Text.                                                                   *)
(***************************************************************************)
Digits == <<"0", "1", "2", "3", "4", "5", "6", "7", "8", "9">>

Dig(n) == Digits[n + 1]

IsDigit(c) == c \in {"0", "1", "2", "3", "4", "5", "6", "7", "8", "9"}

DigitVal(c) ==
    CASE c = "0" -> 0 [] c = "1" -> 1 [] c = "2" -> 2 [] c = "3" -> 3
      [] c = "4" -> 4 [] c = "5" -> 5 [] c = "6" -> 6 [] c = "7" -> 7
      [] c = "8" -> 8 [] c = "9" -> 9

\* "%H", "%M", "%m", "%d": two digits, zero padded
Pad2(n) == <<Dig((n \div 10) % 10), Dig(n % 10)>>

\* "%Y" of a four-digit year
Pad4(n) == <<Dig((n \div 1000) % 10), Dig((n \div 100) % 10)>> \o Pad2(n % 100)

AllDigits(s) == \A i \in 1..Len(s) : IsDigit(s[i])

\* int() of the digits s[i..j]
RECURSIVE NumVal(_, _, _)
NumVal(s, i, j) ==
    IF j < i THEN 0 ELSE 10 * NumVal(s, i, j - 1) + DigitVal(s[j])

\* str.strip(): the text without its leading and trailing whitespace
IsSpace(c) == c \in {" ", "\t", "\n"}

RECURSIVE lstrip(_)
lstrip(s) == IF s # <<>> /\ IsSpace(Head(s)) THEN lstrip(Tail(s)) ELSE s

RECURSIVE rstrip(_)
rstrip(s) ==
    IF s # <<>> /\ IsSpace(s[Len(s)]) THEN rstrip(SubSeq(s, 1, Len(s) - 1)) ELSE s

strip(s) == rstrip(lstrip(s))

\* the order of the characters of dates and times in SQLite's BINARY
\* collation (the order of their bytes)
Collation ==
    <<"\t", "\n", " ", "-", "0", "1", "2", "3", "4", "5", "6", "7", "8", "9", ":">>

CharCode(c) == CHOOSE i \in 1..Len(Collation) : Collation[i] = c

\* a < b for TEXT values: byte by byte, a proper prefix first
RECURSIVE TextLT(_, _)
TextLT(a, b) ==
    IF b = <<>> THEN FALSE
    ELSE IF a = <<>> THEN TRUE
    ELSE IF Head(a) = Head(b) THEN TextLT(Tail(a), Tail(b))
    ELSE CharCode(Head(a)) < CharCode(Head(b))

TextLE(a, b) == a = b \/ TextLT(a, b)

(***************************************************************************)
(* datetime.date                                                           *)
(***************************************************************************)
IsLeap(y) == (y % 4 = 0 /\ y % 100 # 0) \/ y % 400 = 0

DaysInMonth(y, m) ==
    IF m = 2 THEN (IF IsLeap(y) THEN 29 ELSE 28)
    ELSE IF m \in {4, 6, 9, 11} THEN 30 ELSE 31

IsDate(y, m, d) == m \in 1..12 /\ d >= 1 /\ d <= DaysInMonth(y, m)

\* date.__lt__ and date.__le__
DateLT(a, b) ==
    \/ a[1] < b[1]
    \/ a[1] = b[1] /\ a[2] < b[2]
    \/ a[1] = b[1] /\ a[2] = b[2] /\ a[3] < b[3]

DateLE(a, b) == a = b \/ DateLT(a, b)

\* d + timedelta(days=1)
NextDay(d) ==
    IF d[3] < DaysInMonth(d[1], d[2]) THEN <<d[1], d[2], d[3] + 1>>
    ELSE IF d[2] < 12 THEN <<d[1], d[2] + 1, 1>>
    ELSE <<d[1] + 1, 1, 1>>

\* d - timedelta(days=1)
PrevDay(d) ==
    IF d[3] > 1 THEN <<d[1], d[2], d[3] - 1>>
    ELSE IF d[2] > 1 THEN <<d[1], d[2] - 1, DaysInMonth(d[1], d[2] - 1)>>
    ELSE <<d[1] - 1, 12, 31>>

\* d.strftime("%Y-%m-%d")
strftime_date(d) == Pad4(d[1]) \o <<"-">> \o Pad2(d[2]) \o <<"-">> \o Pad2(d[3])

\* the same date written without the leading zeros of month and day, a
\* text strptime reads as the same date
Unpadded(n) == IF n < 10 THEN <<Dig(n)>> ELSE Pad2(n)

WriteShort(d) ==
    Pad4(d[1]) \o <<"-">> \o Unpadded(d[2]) \o <<"-">> \o Unpadded(d[3])

\* d.strftime("%Y-%m"), and the same month without the leading zero
strftime_month(d) == Pad4(d[1]) \o <<"-">> \o Pad2(d[2])

WriteShortMonth(d) == Pad4(d[1]) \o <<"-">> \o Unpadded(d[2])

ValueError == <<>>

\* datetime.strptime(ds, "%Y-%m-%d").date(): four digits of year, a month
\* of one or two digits in 1..12, a day of one or two digits in 1..31 (or a
\* space and one digit), nothing else, and the day must exist
DayText(s, i, j) ==
    \/ /\ \A k \in i..j : IsDigit(s[k])
       /\ NumVal(s, i, j) \in 1..31
    \/ j = i + 1 /\ s[i] = " " /\ IsDigit(s[j]) /\ s[j] # "0"

DayVal(s, i, j) == IF s[i] = " " THEN DigitVal(s[j]) ELSE NumVal(s, i, j)

strptime_parse(ds) ==
    LET n == Len(ds)
        Layouts == {ml \in {1, 2} :
                      /\ n - 6 - ml \in {1, 2}
                      /\ \A k \in 1..4 : IsDigit(ds[k])
                      /\ ds[5] = "-"
                      /\ \A k \in 6..(5 + ml) : IsDigit(ds[k])
                      /\ NumVal(ds, 6, 5 + ml) \in 1..12
                      /\ ds[6 + ml] = "-"
                      /\ DayText(ds, 7 + ml, n)}
    IN  IF n < 8 \/ n > 10 \/ Layouts = {} THEN ValueError
        ELSE LET ml == CHOOSE l \in Layouts : TRUE
                 y == NumVal(ds, 1, 4)
                 m == NumVal(ds, 6, 5 + ml)
                 d == DayVal(ds, 7 + ml, n)
             IN  IF IsDate(y, m, d) THEN <<y, m, d>> ELSE ValueError

\* today in the wire format, today without the leading zero, yesterday,
\* and a day that does not exist
DateInputs ==
    {strftime_date(Today0),
     WriteShort(Today0),
     strftime_date(PrevDay(Today0)),
     <<"2", "0", "2", "6", "-", "0", "2", "-", "3", "0">>}

\* the dates the queries and the requests made between them name: today in
\* the wire format and without the leading zero, and tomorrow
QueryDates ==
    {strftime_date(Today0), WriteShort(Today0), strftime_date(NextDay(Today0))}

\* the days of the month of Today0, of the month after it and of the last
\* month of the window, as calendar_load writes them
CalendarDates ==
    {strftime_date(d) : d \in
        {t \in {Today0[1], Today0[1] + 1} \X (1..12) \X (1..31) :
            /\ IsDate(t[1], t[2], t[3])
            /\ 12 * (t[1] - Today0[1]) + t[2] - Today0[2]
                   \in {0, 1, ALLOWED_MONTHS_AHEAD}}}

\* strptime_parse of the date texts the requests are drawn from, computed
\* once
strptime_known ==
    [ds \in DateInputs \cup QueryDates \cup CalendarDates |-> strptime_parse(ds)]

strptime_date(ds) ==
    IF ds \in DOMAIN strptime_known THEN strptime_known[ds] ELSE strptime_parse(ds)

(***************************************************************************)
(* Slot catalog.                                                           *)
(***************************************************************************)
\* t.strftime("%H:%M") of a time of day given in minutes
strftime_time(t) == Pad2(t \div 60) \o <<":">> \o Pad2(t % 60)

\* a variant of the loop that takes the end of the day as a slot
RECURSIVE slots_through(_, _)
slots_through(t, end) ==
    IF t <= end THEN <<strftime_time(t)>> \o slots_through(t + SLOT_MINUTES, end)
    ELSE <<>>

RECURSIVE slots_from(_, _)
slots_from(t, end) ==
    IF t < end THEN <<strftime_time(t)>> \o slots_from(t + SLOT_MINUTES, end)
    ELSE <<>>

generate_slots == slots_from(WORK_START_HOUR * 60, WORK_END_HOUR * 60)

ALL_SLOTS == generate_slots

DAILY_CAPACITY == Len(ALL_SLOTS)

InSlots(t) == \E i \in 1..Len(ALL_SLOTS) : ALL_SLOTS[i] = t

(***************************************************************************)
(* Window policy.                                                          *)
(***************************************************************************)
first_day_of_month(d) == <<d[1], d[2], 1>>

\* a variant of add_months that does not carry into the year
add_months_same_year(d, months) ==
    <<d[1], ((d[2] - 1 + months) % 12) + 1, 1>>

add_months(d, months) ==
    <<d[1] + ((d[2] - 1 + months) \div 12), ((d[2] - 1 + months) % 12) + 1, 1>>

\* datetime.strptime(ym, "%Y-%m").date().replace(day=1): four digits of a
\* year from 1 on, a month of one or two digits in 1..12, nothing else
strptime_month(ym) ==
    LET n == Len(ym)
    IN  IF /\ n \in {6, 7}
           /\ \A k \in 1..4 : IsDigit(ym[k])
           /\ ym[5] = "-"
           /\ \A k \in 6..n : IsDigit(ym[k])
           /\ NumVal(ym, 6, n) \in 1..12
           /\ NumVal(ym, 1, 4) >= 1
        THEN <<NumVal(ym, 1, 4), NumVal(ym, 6, n), 1>>
        ELSE ValueError

\* the try/except of is_month_allowed: 400 "Invalid month format"
month_format_error(ym) == strptime_month(ym) = ValueError

\* a variant of is_month_allowed that stops one month early
is_month_allowed_exclusive(ym, now) ==
    LET cur == first_day_of_month(now)
        max_month == add_months(cur, ALLOWED_MONTHS_AHEAD)
        r == strptime_month(ym)
    IN  IF r = ValueError THEN FALSE
        ELSE DateLE(cur, r) /\ DateLT(r, max_month)

\* is_month_allowed(ym) for a ym that parses, with date.today() = now
is_month_allowed(ym, now) ==
    LET cur == first_day_of_month(now)
        max_month == add_months(cur, ALLOWED_MONTHS_AHEAD)
        r == strptime_month(ym)
    IN  IF r = ValueError THEN FALSE
        ELSE DateLE(cur, r) /\ DateLE(r, max_month)

\* the try/except of is_date_allowed: strptime raises ValueError, the
\* handler answers 400 "Invalid date format"
date_format_error(ds) == strptime_date(ds) = ValueError

\* is_date_allowed(ds) for a ds that parses, with date.today() = now
is_date_allowed(ds, now) ==
    LET cur == first_day_of_month(now)
        max_month == add_months(cur, ALLOWED_MONTHS_AHEAD)
        r == strptime_date(ds)
    IN  IF r = ValueError THEN FALSE
        ELSE IF DateLT(r, now) THEN FALSE
        ELSE IF DateLT(r, cur) THEN FALSE
        ELSE IF ~DateLT(r, add_months(max_month, 1)) THEN FALSE
        ELSE TRUE

(***************************************************************************)
(* The database.                                                           *)
(***************************************************************************)
\* the ids of the rows init_db seeds the services table with
SERVICES == {1, 2, 3}

\* get_service finds a row
get_service(service_id) == service_id \in SERVICES

\* the patient of the requests that do not vary the patient
Name0 == <<"A", "l", "i">>
Phone0 == <<"5", "5", "5", "1", "2", "3">>
Situation0 == "checkup"

\* one row of the appointments table, here a row of patient Name0; its id is
\* its place in the table (AUTOINCREMENT, and no statement of the program
\* deletes a row); created_at is written and never read by a rule
Row(service_id, appt_date, appt_time, status) ==
    [patient_name |-> Name0, phone |-> Phone0, situation_type |-> Situation0,
     service_id |-> service_id, appt_date |-> appt_date,
     appt_time |-> appt_time, status |-> status]

\* a variant of the day's count without the status filter
count_rows_for_day(rows, service_id, appt_date) ==
    Cardinality({i \in DOMAIN rows : /\ rows[i].service_id = service_id
                                     /\ rows[i].appt_date = appt_date})

\* the ids of the rows WHERE status='booked' AND service_id=? AND appt_date=?
BookedOnDay(rows, service_id, appt_date) ==
    {i \in DOMAIN rows : /\ rows[i].status = "booked"
                         /\ rows[i].service_id = service_id
                         /\ rows[i].appt_date = appt_date}

count_booked_for_day(rows, service_id, appt_date) ==
    Cardinality(BookedOnDay(rows, service_id, appt_date))

\* the SELECT COUNT(*) of create_appointment: the booked rows of exactly
\* this service, date and time
count_booked_slot(rows, service_id, appt_date, appt_time) ==
    Cardinality({i \in BookedOnDay(rows, service_id, appt_date) :
                   rows[i].appt_time = appt_time})

(***************************************************************************)
(* Requests and responses.                                                 *)
(***************************************************************************)
Procs == 1..NumProcs

\* the body of POST /appointments
AppointmentCreate(patient_name, phone, situation_type, service_id, appt_date, appt_time) ==
    [op |-> "create", patient_name |-> patient_name, phone |-> phone,
     situation_type |-> situation_type, service_id |-> service_id,
     appt_date |-> appt_date, appt_time |-> appt_time, appt_id |-> 0]

\* the body of POST /appointments of patient Name0
Payload(service_id, appt_date, appt_time) ==
    AppointmentCreate(Name0, Phone0, Situation0, service_id, appt_date, appt_time)

\* PATCH /appointments/{appt_id}/cancel
CancelReq(appt_id) ==
    [op |-> "cancel", patient_name |-> <<>>, phone |-> <<>>,
     situation_type |-> "", service_id |-> 0, appt_date |-> <<>>,
     appt_time |-> <<>>, appt_id |-> appt_id]

NoReq ==
    [op |-> "none", patient_name |-> <<>>, phone |-> <<>>,
     situation_type |-> "", service_id |-> 0, appt_date |-> <<>>,
     appt_time |-> <<>>, appt_id |-> 0]

\* the Field constraints of AppointmentCreate, applied to the body as it
\* arrives (a body that fails them is answered 422 before the handler runs)
field_valid(pl) ==
    /\ Len(pl.patient_name) >= 2 /\ Len(pl.patient_name) <= 60
    /\ Len(pl.phone) >= 6 /\ Len(pl.phone) <= 20

\* raise HTTPException(status_code=code, ...), named by its error kind
HTTPException(code, kind) == [kind |-> kind, code |-> code, id |-> 0]

\* the AppointmentOut a create returns (status 200), with the new row's id
AppointmentOut(appt_id) == [kind |-> "ok", code |-> 200, id |-> appt_id]

\* CancelResult(ok=True)
CancelResult == [kind |-> "ok", code |-> 200, id |-> 0]

NoResp == [kind |-> "none", code |-> 0, id |-> 0]

(***************************************************************************)
(* The inputs the requests are drawn from.                                 *)
(***************************************************************************)
\* the requests the concurrent server is driven with: service 1, today in
\* the wire format, the first two slots of the catalog
Payloads ==
    {Payload(1, strftime_date(Today0), t) : t \in {ALL_SLOTS[1], ALL_SLOTS[2]}}

\* a service of the table and an id that is not in it
ServiceInputs == {1, 4}

\* the first two slots of the catalog, and the first slot written without
\* its leading zero (no slot)
TimeInputs == {ALL_SLOTS[1], ALL_SLOTS[2], <<"9", ":", "0", "0">>}

\* the requests the serial server is driven with
AllPayloads ==
    {Payload(s, d, t) : s \in ServiceInputs, d \in DateInputs, t \in TimeInputs}

\* a ledger in which the last k slots of service 1 are booked today, as k
\* successive create requests leave it
RECURSIVE BaseLedger(_)
BaseLedger(k) ==
    IF k = 0 THEN <<>>
    ELSE BaseLedger(k - 1) \o
         <<Row(1, strftime_date(Today0), ALL_SLOTS[DAILY_CAPACITY - k + 1], "booked")>>

\* the ledgers a run starts from: empty, and one booking short of a full day
BaseCounts == {0, DAILY_CAPACITY - 1}

(***************************************************************************)
(* State.                                                                  *)
(***************************************************************************)
VARIABLES
    today,          \* date.today()
    appointments,   \* the appointments table, row i has id i
    created,        \* the rows inserted since the start of the run
    pc,             \* pc[p]: where handler p stands
    req,            \* req[p]: the request p handles, or handled last
    resp,           \* resp[p]: the response to req[p], once given
    row,            \* row[p]: the status cancel_appointment selected
    probe,          \* the last call of is_date_allowed and what it returned
    out             \* the last query (GET) and what it returned

vars == <<today, appointments, created, pc, req, resp, row, probe, out>>

NoProbe == [date |-> <<>>, ds |-> <<>>, allowed |-> FALSE]

NoOut == [asked |-> <<>>, answer |-> [op |-> "none"]]

InFlight == {p \in Procs : pc[p] # "idle"}

Init ==
    /\ today = Today0
    /\ \E k \in BaseCounts : appointments = BaseLedger(k)
    /\ created = 0
    /\ pc = [p \in Procs |-> "idle"]
    /\ req = [p \in Procs |-> NoReq]
    /\ resp = [p \in Procs |-> NoResp]
    /\ row = [p \in Procs |-> "none"]
    /\ probe = NoProbe
    /\ out = NoOut

(***************************************************************************)
(* create_appointment                                                      *)
(***************************************************************************)
\* a variant of the checks that lets a day take one booking more
create_checks_off_by_one(pl, rows, now) ==
    IF date_format_error(pl.appt_date) THEN HTTPException(400, "InvalidFormat")
    ELSE IF ~is_date_allowed(pl.appt_date, now) THEN HTTPException(400, "OutOfRange")
    ELSE IF ~get_service(pl.service_id) THEN HTTPException(400, "UnknownService")
    ELSE IF ~InSlots(pl.appt_time) THEN HTTPException(400, "InvalidSlot")
    ELSE IF count_booked_for_day(rows, pl.service_id, pl.appt_date) > DAILY_CAPACITY
         THEN HTTPException(409, "DayFull")
    ELSE NoResp

\* a variant of the checks that looks at the slot before the service
create_checks_slot_first(pl, rows, now) ==
    IF date_format_error(pl.appt_date) THEN HTTPException(400, "InvalidFormat")
    ELSE IF ~is_date_allowed(pl.appt_date, now) THEN HTTPException(400, "OutOfRange")
    ELSE IF ~InSlots(pl.appt_time) THEN HTTPException(400, "InvalidSlot")
    ELSE IF ~get_service(pl.service_id) THEN HTTPException(400, "UnknownService")
    ELSE IF count_booked_for_day(rows, pl.service_id, pl.appt_date) >= DAILY_CAPACITY
         THEN HTTPException(409, "DayFull")
    ELSE NoResp

\* a variant of the checks without the slot check
create_checks_no_slot(pl, rows, now) ==
    IF date_format_error(pl.appt_date) THEN HTTPException(400, "InvalidFormat")
    ELSE IF ~is_date_allowed(pl.appt_date, now) THEN HTTPException(400, "OutOfRange")
    ELSE IF ~get_service(pl.service_id) THEN HTTPException(400, "UnknownService")
    ELSE IF count_booked_for_day(rows, pl.service_id, pl.appt_date) >= DAILY_CAPACITY
         THEN HTTPException(409, "DayFull")
    ELSE NoResp

\* lines 290-300: the checks made before the handler opens its connection,
\* in the order of the code; NoResp when none raises
create_checks(pl, rows, now) ==
    IF date_format_error(pl.appt_date) THEN HTTPException(400, "InvalidFormat")
    ELSE IF ~is_date_allowed(pl.appt_date, now) THEN HTTPException(400, "OutOfRange")
    ELSE IF ~get_service(pl.service_id) THEN HTTPException(400, "UnknownService")
    ELSE IF ~InSlots(pl.appt_time) THEN HTTPException(400, "InvalidSlot")
    ELSE IF count_booked_for_day(rows, pl.service_id, pl.appt_date) >= DAILY_CAPACITY
         THEN HTTPException(409, "DayFull")
    ELSE NoResp

\* a variant of the double-booking check without the status filter
slot_taken_any_status(pl, rows) ==
    \E i \in DOMAIN rows :
        /\ rows[i].service_id = pl.service_id
        /\ rows[i].appt_date = pl.appt_date
        /\ rows[i].appt_time = pl.appt_time

\* lines 306-315: the double-booking check
slot_taken(pl, rows) ==
    count_booked_slot(rows, pl.service_id, pl.appt_date, pl.appt_time) > 0

\* a variant of the INSERT that takes over a cancelled row of the same slot
\* instead of adding a row
insert_reusing_cancelled(pl, rows) ==
    LET old == {i \in DOMAIN rows :
                  /\ rows[i].status = "cancelled"
                  /\ rows[i].service_id = pl.service_id
                  /\ rows[i].appt_date = pl.appt_date
                  /\ rows[i].appt_time = pl.appt_time}
    IN  IF old = {}
        THEN Append(rows, Row(pl.service_id, pl.appt_date, pl.appt_time, "booked"))
        ELSE [i \in DOMAIN rows |->
                IF i = CHOOSE k \in old : TRUE
                THEN [rows[i] EXCEPT !.status = "booked"] ELSE rows[i]]

\* a variant of the INSERT that writes the row twice
insert_twice(pl, rows) ==
    Append(Append(rows, Row(pl.service_id, pl.appt_date, pl.appt_time, "booked")),
           Row(pl.service_id, pl.appt_date, pl.appt_time, "booked"))

\* the values of the INSERT: name and phone stripped, the other fields as
\* they came, status 'booked'
Stored(pl) ==
    [patient_name |-> strip(pl.patient_name), phone |-> strip(pl.phone),
     situation_type |-> pl.situation_type, service_id |-> pl.service_id,
     appt_date |-> pl.appt_date, appt_time |-> pl.appt_time, status |-> "booked"]

\* lines 318-329: the INSERT
insert_appointment(pl, rows) == Append(rows, Stored(pl))

\* the request arrives; the body is validated, then date, service, slot and
\* day capacity are checked
CreateBegin(p, pl) ==
    /\ pc[p] = "idle"
    /\ created + Cardinality({q \in InFlight : req[q].op = "create"}) < MaxAppts
    /\ req' = [req EXCEPT ![p] = pl]
    /\ LET r == IF field_valid(pl) THEN create_checks(pl, appointments, today)
                ELSE HTTPException(422, "Unprocessable")
       IN  IF r = NoResp
           THEN /\ pc' = [pc EXCEPT ![p] = "check_slot"]
                /\ resp' = [resp EXCEPT ![p] = NoResp]
           ELSE /\ pc' = [pc EXCEPT ![p] = "idle"]
                /\ resp' = [resp EXCEPT ![p] = r]
    /\ row' = [row EXCEPT ![p] = "none"]
    /\ UNCHANGED <<today, appointments, created, probe, out>>

\* the SELECT COUNT(*) on the handler's own connection
CreateCheckSlot(p) ==
    /\ pc[p] = "check_slot"
    /\ IF slot_taken(req[p], appointments)
       THEN /\ pc' = [pc EXCEPT ![p] = "idle"]
            /\ resp' = [resp EXCEPT ![p] = HTTPException(409, "SlotTaken")]
       ELSE /\ pc' = [pc EXCEPT ![p] = "insert"]
            /\ UNCHANGED resp
    /\ UNCHANGED <<today, appointments, created, req, row, probe, out>>

\* the INSERT, the commit and the response
CreateInsert(p) ==
    /\ pc[p] = "insert"
    /\ appointments' = insert_appointment(req[p], appointments)
    /\ created' = created + 1
    /\ resp' = [resp EXCEPT ![p] = AppointmentOut(Len(appointments'))]
    /\ pc' = [pc EXCEPT ![p] = "idle"]
    /\ UNCHANGED <<today, req, row, probe, out>>

(***************************************************************************)
(* cancel_appointment                                                      *)
(***************************************************************************)
\* a variant of the SELECT whose caller does not test for a missing row
select_status_unchecked(rows, appt_id) ==
    IF appt_id \in DOMAIN rows THEN rows[appt_id].status ELSE "booked"

\* lines 379-380: SELECT id, status FROM appointments WHERE id=?
select_status(rows, appt_id) ==
    IF appt_id \in DOMAIN rows THEN rows[appt_id].status ELSE "none"

\* a variant of the UPDATE that writes the status in another spelling
update_canceled(rows, appt_id) ==
    [i \in DOMAIN rows |->
        IF i = appt_id THEN [rows[i] EXCEPT !.status = "canceled"] ELSE rows[i]]

\* line 389: UPDATE appointments SET status='cancelled' WHERE id=?
update_cancelled(rows, appt_id) ==
    [i \in DOMAIN rows |->
        IF i = appt_id THEN [rows[i] EXCEPT !.status = "cancelled"] ELSE rows[i]]

\* the ids a cancel request names: the n latest rows, the id the next insert
\* will get, and 0
CancelIds(n) ==
    {0} \cup {i \in (Len(appointments) - n + 1)..(Len(appointments) + 1) : i > 0}

\* the request arrives and the row is selected
CancelBegin(p, appt_id) ==
    /\ pc[p] = "idle"
    /\ req' = [req EXCEPT ![p] = CancelReq(appt_id)]
    /\ LET st == select_status(appointments, appt_id)
       IN  /\ row' = [row EXCEPT ![p] = st]
           /\ IF st = "none"
              THEN /\ pc' = [pc EXCEPT ![p] = "idle"]
                   /\ resp' = [resp EXCEPT ![p] = HTTPException(404, "NotFound")]
              ELSE IF st = "cancelled"
              THEN /\ pc' = [pc EXCEPT ![p] = "idle"]
                   /\ resp' = [resp EXCEPT ![p] = CancelResult]
              ELSE /\ pc' = [pc EXCEPT ![p] = "cancel_update"]
                   /\ resp' = [resp EXCEPT ![p] = NoResp]
    /\ UNCHANGED <<today, appointments, created, probe, out>>

\* the UPDATE, the commit and the response
CancelUpdate(p) ==
    /\ pc[p] = "cancel_update"
    /\ appointments' = update_cancelled(appointments, req[p].appt_id)
    /\ resp' = [resp EXCEPT ![p] = CancelResult]
    /\ pc' = [pc EXCEPT ![p] = "idle"]
    /\ UNCHANGED <<today, created, req, row, probe, out>>

(***************************************************************************)
(* calendar_load                                                           *)
(***************************************************************************)
\* Optional[int]: None, or an id
None == <<>>
Some(service_id) == <<service_id>>

\* lines 232-235: the first day of the month after first_day
next_month_of(first_day) ==
    IF first_day[2] = 12 THEN <<first_day[1] + 1, 1, 1>>
    ELSE <<first_day[1], first_day[2] + 1, 1>>

\* lines 243-253 and 268: counts.get(ds, 0), where counts holds, for every
\* appt_date text of the booked rows of the service between the two bounds
\* (as TEXT), the number of those rows
counts_get(rows, service, lo, hi, ds) ==
    IF service = None THEN 0
    ELSE Cardinality({i \in DOMAIN rows :
            /\ rows[i].appt_date = ds
            /\ rows[i].status = "booked"
            /\ rows[i].service_id = service[1]
            /\ TextLE(lo, rows[i].appt_date)
            /\ TextLT(rows[i].appt_date, hi)})

\* lines 256-261
level(c) == IF c <= 5 THEN "Low" ELSE IF c <= 12 THEN "Medium" ELSE "High"

\* a variant of the day record that does not look at today
day_load_never_past(rows, service, lo, hi, d, now) ==
    LET ds == strftime_date(d)
        c == counts_get(rows, service, lo, hi, ds)
        is_full == service # None /\ c >= DAILY_CAPACITY
    IN  [date |-> ds, count |-> c, level |-> level(c), is_full |-> is_full,
         disabled |-> is_full]

\* lines 267-283: the record of day d
day_load(rows, service, lo, hi, d, now) ==
    LET ds == strftime_date(d)
        c == counts_get(rows, service, lo, hi, ds)
        is_full == service # None /\ c >= DAILY_CAPACITY
        is_past == DateLT(d, now)
    IN  [date |-> ds, count |-> c, level |-> level(c), is_full |-> is_full,
         disabled |-> (is_past \/ is_full)]

\* lines 263-284: the loop over the days from d up to next_month
RECURSIVE days_from(_, _, _, _, _, _, _)
days_from(rows, service, lo, hi, d, next_month, now) ==
    IF DateLT(d, next_month)
    THEN <<day_load(rows, service, lo, hi, d, now)>>
         \o days_from(rows, service, lo, hi, NextDay(d), next_month, now)
    ELSE <<>>

\* what a query is answered with when it raises
QueryError(op, code, kind) == [op |-> op, code |-> code, kind |-> kind]

\* GET /calendar-load: the whole handler (its two SELECTs read the services
\* table, which no request writes, and the appointments table once)
calendar_load(month, service, rows, now) ==
    IF month_format_error(month) THEN QueryError("calendar_load", 400, "InvalidFormat")
    ELSE IF ~is_month_allowed(month, now)
    THEN QueryError("calendar_load", 400, "OutOfRange")
    ELSE IF service # None /\ ~get_service(service[1])
    THEN QueryError("calendar_load", 400, "UnknownService")
    ELSE LET first_day == strptime_month(month)
             next_month == next_month_of(first_day)
         IN  [op |-> "calendar_load", code |-> 200, kind |-> "ok",
              month |-> month, service_id |-> service,
              daily_capacity |-> DAILY_CAPACITY,
              days |-> days_from(rows, service, strftime_date(first_day),
                                 strftime_date(next_month), first_day,
                                 next_month, now)]

\* a calendar_load request is answered
CalendarLoad(month, service) ==
    /\ out = NoOut
    /\ out' = [asked |-> <<month, service>>,
               answer |-> calendar_load(month, service, appointments, today)]
    /\ UNCHANGED <<today, appointments, created, pc, req, resp, row, probe>>

(***************************************************************************)
(* get_booked_times and get_time_slots                                     *)
(***************************************************************************)
\* ORDER BY appt_time over the rows ids: the least text first
RECURSIVE order_by_time(_, _)
order_by_time(rows, ids) ==
    IF ids = {} THEN <<>>
    ELSE LET i == CHOOSE k \in ids :
                    \A j \in ids : TextLE(rows[k].appt_time, rows[j].appt_time)
         IN  <<rows[i].appt_time>> \o order_by_time(rows, ids \ {i})

\* the selected rows in the order of their ids
RECURSIVE in_id_order(_, _)
in_id_order(rows, ids) ==
    IF ids = {} THEN <<>>
    ELSE LET i == CHOOSE k \in ids : \A j \in ids : k <= j
         IN  <<rows[i].appt_time>> \o in_id_order(rows, ids \ {i})

\* a variant of booked_times without the ORDER BY
booked_times_unordered(rows, appt_date, service_id) ==
    in_id_order(rows, BookedOnDay(rows, service_id, appt_date))

\* lines 158-171
booked_times(rows, appt_date, service_id) ==
    order_by_time(rows, BookedOnDay(rows, service_id, appt_date))

\* GET /booked-times: the whole handler
get_booked_times(appt_date, service_id, rows, now) ==
    IF date_format_error(appt_date) THEN QueryError("booked_times", 400, "InvalidFormat")
    ELSE IF ~is_date_allowed(appt_date, now)
    THEN QueryError("booked_times", 400, "OutOfRange")
    ELSE IF ~get_service(service_id)
    THEN QueryError("booked_times", 400, "UnknownService")
    ELSE [op |-> "booked_times", code |-> 200, kind |-> "ok",
          appt_date |-> appt_date, service_id |-> service_id,
          booked_times |-> booked_times(rows, appt_date, service_id)]

\* a get_booked_times request is answered
GetBookedTimes(appt_date, service_id) ==
    /\ out = NoOut
    /\ out' = [asked |-> <<appt_date, service_id>>,
               answer |-> get_booked_times(appt_date, service_id, appointments, today)]
    /\ UNCHANGED <<today, appointments, created, pc, req, resp, row, probe>>

\* GET /time-slots
get_time_slots ==
    [op |-> "time_slots", code |-> 200, kind |-> "ok",
     slots |-> ALL_SLOTS, daily_capacity |-> DAILY_CAPACITY]

GetTimeSlots ==
    /\ out = NoOut
    /\ out' = [asked |-> <<>>, answer |-> get_time_slots]
    /\ UNCHANGED <<today, appointments, created, pc, req, resp, row, probe>>

(***************************************************************************)
(* list_appointments                                                       *)
(***************************************************************************)
\* the AppointmentOut of row i (service_name and created_at are not
\* modelled: the first is the name of service_id, the second a timestamp)
listed(rows, i) ==
    [id |-> i, patient_name |-> rows[i].patient_name, phone |-> rows[i].phone,
     situation_type |-> rows[i].situation_type, service_id |-> rows[i].service_id,
     appt_date |-> rows[i].appt_date, appt_time |-> rows[i].appt_time,
     status |-> rows[i].status]

\* row i comes no later than row j under ORDER BY appt_date DESC, appt_time
\* DESC
newer_or_same(rows, i, j) ==
    \/ TextLT(rows[j].appt_date, rows[i].appt_date)
    \/ /\ rows[j].appt_date = rows[i].appt_date
       /\ TextLE(rows[j].appt_time, rows[i].appt_time)

\* the orders the ORDER BY allows for the rows ids (rows with the same date
\* and time come in any order)
RECURSIVE ordered_newest_first(_, _)
ordered_newest_first(rows, ids) ==
    IF ids = {} THEN {<<>>}
    ELSE UNION {{<<listed(rows, i)>> \o rest :
                    rest \in ordered_newest_first(rows, ids \ {i})} :
                i \in {k \in ids : \A j \in ids : newer_or_same(rows, k, j)}}

\* a variant of the query that matches the phone as it was typed
list_appointments_unstripped(phone, rows) ==
    ordered_newest_first(rows,
        {i \in DOMAIN rows : rows[i].phone = phone /\ get_service(rows[i].service_id)})

\* lines 349-359: the results the query may give
list_appointments(phone, rows) ==
    ordered_newest_first(rows,
        {i \in DOMAIN rows : /\ rows[i].phone = strip(phone)
                             /\ get_service(rows[i].service_id)})

\* a list_appointments request is answered
ListAppointments(phone) ==
    /\ out = NoOut
    /\ \E items \in list_appointments(phone, appointments) :
          out' = [asked |-> <<phone>>,
                  answer |-> [op |-> "list", code |-> 200, kind |-> "ok",
                              items |-> items]]
    /\ UNCHANGED <<today, appointments, created, pc, req, resp, row, probe>>

(***************************************************************************)
(* The clock.                                                              *)
(***************************************************************************)
RECURSIVE DaysAfter(_, _)
DaysAfter(d, n) == IF n = 0 THEN d ELSE NextDay(DaysAfter(d, n - 1))

\* midnight passes: date.today() returns the next day from now on
Midnight ==
    /\ DateLT(today, DaysAfter(Today0, MaxDays))
    /\ today' = NextDay(today)
    /\ UNCHANGED <<appointments, created, pc, req, resp, row, probe, out>>

(***************************************************************************)
(* The server: any number of handlers at any stage, in any order, within   *)
(* one day.                                                                *)
(***************************************************************************)
Next ==
    \/ \E p \in Procs, pl \in Payloads : CreateBegin(p, pl)
    \/ \E p \in Procs : CreateCheckSlot(p)
    \/ \E p \in Procs : CreateInsert(p)
    \/ \E p \in Procs, i \in CancelIds(1) : CancelBegin(p, i)
    \/ \E p \in Procs : CancelUpdate(p)

Spec == Init /\ [][Next]_vars

(***************************************************************************)
(* The same server when no two requests overlap: one handler takes the     *)
(* requests one after the other, each running to its response, with badly  *)
(* formed and refused requests among them, and the days go by.             *)
(***************************************************************************)
SeqNext ==
    \/ \E pl \in AllPayloads : CreateBegin(1, pl)
    \/ CreateCheckSlot(1)
    \/ CreateInsert(1)
    \/ \E i \in CancelIds(2) : CancelBegin(1, i)
    \/ CancelUpdate(1)
    \/ Midnight

SeqSpec == Init /\ [][SeqNext]_vars

(***************************************************************************)
(* The serial server with its queries: requests one after the other for    *)
(* two services, two days and two writings of a date, on days with few,    *)
(* some, many and nearly all slots booked, within one day, and then one     *)
(* query.                                                                  *)
(***************************************************************************)
\* service 1 today at the first slot with the date in each of its writings
\* and tomorrow, and today at the first slot for service 2
QueryPayloads ==
    {Payload(1, d, ALL_SLOTS[1]) : d \in QueryDates}
    \cup {Payload(2, strftime_date(Today0), ALL_SLOTS[1])}

\* the ledgers a run starts from: around the bounds of the load levels and
\* of the capacity
QueryCounts == {0, 5, 12, DAILY_CAPACITY - 1}

QueryInit ==
    /\ today = Today0
    /\ \E k \in QueryCounts : appointments = BaseLedger(k)
    /\ created = 0
    /\ pc = [p \in Procs |-> "idle"]
    /\ req = [p \in Procs |-> NoReq]
    /\ resp = [p \in Procs |-> NoResp]
    /\ row = [p \in Procs |-> "none"]
    /\ probe = NoProbe
    /\ out = NoOut

\* what calendar_load is asked for: this month with no service, with a
\* service of the table and with an id that is not in it, and the next month
\* with another service of the table
QueryCalendars ==
    {<<strftime_month(Today0), sv>> : sv \in {None, Some(1), Some(4)}}
    \cup {<<strftime_month(add_months(Today0, 1)), Some(2)>>}

\* what get_booked_times is asked for: service 1 on every date, service 2
\* and an id that is not in the table today
QueryDays ==
    {<<d, 1>> : d \in QueryDates} \cup {<<strftime_date(Today0), sv>> : sv \in {2, 4}}

QueryNext ==
    \/ out = NoOut /\ \E pl \in QueryPayloads : CreateBegin(1, pl)
    \/ out = NoOut /\ CreateCheckSlot(1)
    \/ out = NoOut /\ CreateInsert(1)
    \/ out = NoOut /\ \E i \in CancelIds(1) \cap DOMAIN appointments : CancelBegin(1, i)
    \/ out = NoOut /\ CancelUpdate(1)
    \/ \E q \in QueryCalendars : CalendarLoad(q[1], q[2])
    \/ \E q \in QueryDays : GetBookedTimes(q[1], q[2])

QuerySpec == QueryInit /\ [][QueryNext]_vars

(***************************************************************************)
(* The serial server and its calendar over the days: requests for today    *)
(* and tomorrow starting one booking short of a full day, midnights, and    *)
(* then the calendar of this month or of the last month of the window.     *)
(***************************************************************************)
AgreePayloads ==
    {Payload(1, d, ALL_SLOTS[1]) :
        d \in {strftime_date(Today0), strftime_date(NextDay(Today0))}}

AgreeInit ==
    /\ today = Today0
    /\ appointments = BaseLedger(DAILY_CAPACITY - 1)
    /\ created = 0
    /\ pc = [p \in Procs |-> "idle"]
    /\ req = [p \in Procs |-> NoReq]
    /\ resp = [p \in Procs |-> NoResp]
    /\ row = [p \in Procs |-> "none"]
    /\ probe = NoProbe
    /\ out = NoOut

AgreeNext ==
    \/ out = NoOut /\ \E pl \in AgreePayloads : CreateBegin(1, pl)
    \/ out = NoOut /\ CreateCheckSlot(1)
    \/ out = NoOut /\ CreateInsert(1)
    \/ out = NoOut /\ \E i \in CancelIds(1) \cap DOMAIN appointments : CancelBegin(1, i)
    \/ out = NoOut /\ CancelUpdate(1)
    \/ out = NoOut /\ Midnight
    \/ \E k \in {0, ALLOWED_MONTHS_AHEAD} :
          CalendarLoad(strftime_month(add_months(Today0, k)), Some(1))

AgreeSpec == AgreeInit /\ [][AgreeNext]_vars

(***************************************************************************)
(* The serial server with its patients: requests with names and phones of  *)
(* every kind (plain, with whitespace around them, whitespace only, too     *)
(* short, too long), and then one list_appointments query.                 *)
(***************************************************************************)
\* a text of n characters c
RECURSIVE Repeat(_, _)
Repeat(c, n) == IF n = 0 THEN <<>> ELSE <<c>> \o Repeat(c, n - 1)

Names == {Name0, <<" ", "A", "l", " ">>, Repeat(" ", 2), <<"A">>, Repeat("x", 61)}

Phones == {Phone0, <<" ">> \o Phone0 \o <<"\t">>, Repeat(" ", 6),
           <<"5", "5", "5", "1", "2">>, Repeat("5", 21)}

\* every name with the plain phone, every phone with the plain name, and
\* name and phone both with whitespace around them, for service 1 at the
\* first slot; the latter also for service 2 at the second slot
PatientPayloads ==
    {AppointmentCreate(n, Phone0, Situation0, 1, strftime_date(Today0), ALL_SLOTS[1]) :
        n \in Names}
    \cup {AppointmentCreate(Name0, ph, Situation0, 1, strftime_date(Today0), ALL_SLOTS[1]) :
            ph \in Phones}
    \cup {AppointmentCreate(<<" ", "A", "l", " ">>, <<" ">> \o Phone0 \o <<"\t">>,
                            "urgent", sv, strftime_date(Today0), ALL_SLOTS[sv]) :
            sv \in {1, 2}}

\* the phones list_appointments is asked for: the phones the requests may
\* have, each also with whitespace around it, and a phone no request has
Surround(ph) == <<"\n", " ">> \o ph \o <<" ">>

PhoneQueries ==
    LET asked == {Phone0, <<" ">> \o Phone0 \o <<"\t">>, Repeat(" ", 6)}
    IN  asked \cup {Surround(ph) : ph \in asked} \cup {<<"9", "9", "9", "9", "9", "9">>}

PatientInit ==
    /\ today = Today0
    /\ \E k \in {0, 1} : appointments = BaseLedger(k)
    /\ created = 0
    /\ pc = [p \in Procs |-> "idle"]
    /\ req = [p \in Procs |-> NoReq]
    /\ resp = [p \in Procs |-> NoResp]
    /\ row = [p \in Procs |-> "none"]
    /\ probe = NoProbe
    /\ out = NoOut

PatientNext ==
    \/ out = NoOut /\ \E pl \in PatientPayloads : CreateBegin(1, pl)
    \/ out = NoOut /\ CreateCheckSlot(1)
    \/ out = NoOut /\ CreateInsert(1)
    \/ out = NoOut /\ \E i \in CancelIds(1) : CancelBegin(1, i)
    \/ out = NoOut /\ CancelUpdate(1)
    \/ \E ph \in PhoneQueries : ListAppointments(ph)

PatientSpec == PatientInit /\ [][PatientNext]_vars

(***************************************************************************)
(* Two or more create requests racing for a slot: every handler takes one  *)
(* create request, on a day of service 1 with any number of its later      *)
(* slots already booked, and the handlers' statements interleave freely.   *)
(***************************************************************************)
RaceInit ==
    /\ today = Today0
    /\ \E k \in 0..(DAILY_CAPACITY - 1) : appointments = BaseLedger(k)
    /\ created = 0
    /\ pc = [p \in Procs |-> "idle"]
    /\ req = [p \in Procs |-> NoReq]
    /\ resp = [p \in Procs |-> NoResp]
    /\ row = [p \in Procs |-> "none"]
    /\ probe = NoProbe
    /\ out = NoOut

RaceNext ==
    \/ \E p \in Procs, pl \in Payloads :
          /\ req[p] = NoReq
          /\ CreateBegin(p, pl)
    \/ \E p \in Procs : CreateCheckSlot(p)
    \/ \E p \in Procs : CreateInsert(p)

RaceSpec == RaceInit /\ [][RaceNext]_vars

(***************************************************************************)
(* The window policy on its own: is_date_allowed applied to the calendar   *)
(* dates of MaxYears + 1 years, written in the wire format, with today on  *)
(* the first, the fifteenth or the last day of any month of MaxYears       *)
(* years.                                                                  *)
(***************************************************************************)
Todays ==
    {t \in (Year0..(Year0 + MaxYears - 1)) \X (1..12) \X (1..31) :
        t[3] \in {1, 15, DaysInMonth(t[1], t[2])}}

ProbeDates ==
    {t \in (Year0..(Year0 + MaxYears)) \X (1..12) \X (1..31) : IsDate(t[1], t[2], t[3])}

WindowInit ==
    /\ today \in Todays
    /\ appointments = <<>>
    /\ created = 0
    /\ pc = [p \in Procs |-> "idle"]
    /\ req = [p \in Procs |-> NoReq]
    /\ resp = [p \in Procs |-> NoResp]
    /\ row = [p \in Procs |-> "none"]
    /\ probe = NoProbe
    /\ out = NoOut

\* is_date_allowed is called with date d in the wire format
ProbeDate(d) ==
    /\ probe = NoProbe
    /\ probe' = [date |-> d, ds |-> strftime_date(d),
                 allowed |-> is_date_allowed(strftime_date(d), today)]
    /\ UNCHANGED <<today, appointments, created, pc, req, resp, row, out>>

WindowNext == \E d \in ProbeDates : ProbeDate(d)

WindowSpec == WindowInit /\ [][WindowNext]_vars

(***************************************************************************)
(* The month policy and the slot catalog on their own: calendar_load       *)
(* without a service, asked for the months from the year before Year0 to   *)
(* the year after the last year of today, written with and without the     *)
(* leading zero, with today as in the window policy; and get_time_slots.   *)
(***************************************************************************)
ProbeMonths == {<<y, m, 1>> : y \in (Year0 - 1)..(Year0 + MaxYears), m \in 1..12}

MonthTexts == {strftime_month(d) : d \in ProbeMonths}
              \cup {WriteShortMonth(d) : d \in ProbeMonths}

MonthNext ==
    \/ \E ym \in MonthTexts : CalendarLoad(ym, None)
    \/ GetTimeSlots

MonthSpec == WindowInit /\ [][MonthNext]_vars

\* the months since year 0 of the month of date d
MonthNumber(d) == 12 * d[1] + d[2] - 1

\* C10: is_date_allowed(d) is true exactly when d is not before today and
\* lies before the first day of the month ALLOWED_MONTHS_AHEAD + 1 months
\* after the current month, counting months across the end of the year.
C10_DateWindow ==
    probe # NoProbe =>
        (probe.allowed <=>
            /\ DateLE(today, probe.date)
            /\ MonthNumber(probe.date) < MonthNumber(today) + ALLOWED_MONTHS_AHEAD + 1)

\* the last day of the third month after the current one, in the next year,
\* has been found allowed, with today itself allowed in the same window
C10_Witness ==
    /\ probe.allowed
    /\ probe.date # <<>>
    /\ probe.date[1] = today[1] + 1
    /\ NextDay(probe.date)[3] = 1
    /\ MonthNumber(probe.date) = MonthNumber(today) + ALLOWED_MONTHS_AHEAD
    /\ is_date_allowed(strftime_date(today), today)

(***************************************************************************)
(* Properties of the ledger.                                               *)
(***************************************************************************)
Booked(i) == appointments[i].status = "booked"

SameSlot(i, j) ==
    /\ appointments[i].service_id = appointments[j].service_id
    /\ appointments[i].appt_date = appointments[j].appt_date
    /\ appointments[i].appt_time = appointments[j].appt_time

\* C1: in every reachable state, under any interleaving of create and cancel
\* requests, no two booked appointments have the same service_id, appt_date
\* and appt_time.
C1_NoDoubleBooking ==
    \A i, j \in DOMAIN appointments :
        (i # j /\ Booked(i) /\ Booked(j)) => ~SameSlot(i, j)

\* handler p has answered a create request
Answered(p) == pc[p] = "idle" /\ req[p].op = "create" /\ resp[p] # NoResp

\* the checks that come before the day's capacity and the slot let p through
PassedValidation(p) ==
    resp[p].kind \notin {"InvalidFormat", "OutOfRange", "UnknownService",
                         "InvalidSlot", "DayFull"}

\* the rows of the slot req[p] asks for that neither p nor q inserted
OthersInSlot(p, q) ==
    {i \in DOMAIN appointments :
        /\ i \notin {resp[p].id, resp[q].id}
        /\ Booked(i)
        /\ appointments[i].service_id = req[p].service_id
        /\ appointments[i].appt_date = req[p].appt_date
        /\ appointments[i].appt_time = req[p].appt_time}

\* C2: of two concurrent create requests for the same free slot that both
\* pass validation on a day that is not full, exactly one succeeds and the
\* other is answered SlotTaken (409), whatever the interleaving.
C2_ExactlyOneWins ==
    \A p, q \in Procs :
        (/\ p # q
         /\ Answered(p) /\ Answered(q)
         /\ req[p] = req[q]
         /\ PassedValidation(p) /\ PassedValidation(q)
         /\ OthersInSlot(p, q) = {})
        => \/ resp[p].kind = "ok" /\ resp[q] = HTTPException(409, "SlotTaken")
           \/ resp[q].kind = "ok" /\ resp[p] = HTTPException(409, "SlotTaken")

\* C3: in every reachable state, under any interleaving of create and cancel
\* requests, no service has more than DAILY_CAPACITY booked appointments on
\* one appt_date.
C3_CapacityRespected ==
    \A i \in DOMAIN appointments :
        count_booked_for_day(appointments, appointments[i].service_id,
                             appointments[i].appt_date) <= DAILY_CAPACITY

(***************************************************************************)
(* Properties of cancel_appointment.                                       *)
(***************************************************************************)
\* handler p takes the step
StepOf(p) ==
    <<pc[p], req[p], resp[p], row[p]>> # <<pc'[p], req'[p], resp'[p], row'[p]>>

\* handler p answers a cancel request in this step
CancelAnswered(p) == StepOf(p) /\ req'[p].op = "cancel" /\ pc'[p] = "idle"

\* C6: every cancel of an existing appointment answers ok and leaves the
\* appointment cancelled, the first time and every later time; a cancel of
\* an appointment that is already cancelled changes nothing in the ledger.
C6_CancelIdempotent ==
    [][\A p \in Procs :
          (CancelAnswered(p) /\ req'[p].appt_id \in DOMAIN appointments)
          => /\ resp'[p] = CancelResult
             /\ req'[p].appt_id \in DOMAIN appointments'
             /\ appointments'[req'[p].appt_id].status = "cancelled"
             /\ (appointments[req'[p].appt_id].status = "cancelled"
                 => appointments' = appointments)]_vars

\* a cancel of an appointment that was found cancelled has been answered ok
\* (with the appointment still cancelled)
C6_Witness ==
    \E p \in Procs :
        /\ pc[p] = "idle" /\ req[p].op = "cancel" /\ row[p] = "cancelled"
        /\ resp[p] = CancelResult
        /\ appointments[req[p].appt_id].status = "cancelled"

\* C7: no step removes an appointment or changes its fields, except that a
\* booked appointment may become cancelled; a cancelled appointment stays
\* cancelled.
C7_CancelledIsTerminal ==
    [][\A i \in DOMAIN appointments :
          /\ i \in DOMAIN appointments'
          /\ \/ appointments'[i] = appointments[i]
             \/ /\ appointments[i].status = "booked"
                /\ appointments'[i] = [appointments[i] EXCEPT !.status = "cancelled"]]_vars

\* an appointment is cancelled and its slot has been booked again by a later
\* appointment
C7_Witness ==
    \E i, j \in DOMAIN appointments :
        /\ i < j
        /\ appointments[i].status = "cancelled"
        /\ appointments[j].status = "booked"
        /\ SameSlot(i, j)

\* C8: a cancel request whose id matches no appointment is answered NotFound
\* (404) and changes nothing in the ledger.
C8_CancelUnknownId ==
    [][\A p \in Procs :
          (/\ StepOf(p)
           /\ req'[p].op = "cancel"
           /\ req'[p].appt_id \notin DOMAIN appointments)
          => /\ resp'[p] = HTTPException(404, "NotFound")
             /\ pc'[p] = "idle"
             /\ appointments' = appointments]_vars

\* a cancel of an id that is not in a ledger with appointments has been
\* answered NotFound
C8_Witness ==
    \E p \in Procs :
        /\ req[p].op = "cancel"
        /\ req[p].appt_id \notin DOMAIN appointments
        /\ resp[p] = HTTPException(404, "NotFound")
        /\ \E i \in DOMAIN appointments : Booked(i)

(***************************************************************************)
(* Properties of create_appointment.                                       *)
(***************************************************************************)
\* a booked appointment occupies the slot request r asks for
BookedFor(r) ==
    \E i \in DOMAIN appointments :
        /\ Booked(i)
        /\ appointments[i].service_id = r.service_id
        /\ appointments[i].appt_date = r.appt_date
        /\ appointments[i].appt_time = r.appt_time

\* handler p takes up a create request in this step
CreateTaken(p) == StepOf(p) /\ pc[p] = "idle" /\ req'[p].op = "create"

\* the checks of the request handler p takes up, each on its own, against
\* the clock and the ledger of the moment
DateOk(p) == is_date_allowed(req'[p].appt_date, today)
ServiceOk(p) == get_service(req'[p].service_id)
SlotOk(p) == InSlots(req'[p].appt_time)
DayIsFull(p) ==
    count_booked_for_day(appointments, req'[p].service_id, req'[p].appt_date)
        >= DAILY_CAPACITY
SlotIsBooked(p) == BookedFor(req'[p])

\* C4 as stated: once a service has DAILY_CAPACITY booked appointments on a
\* date, every further create request for that service and date is answered
\* DayFull, whatever time it asks for.
C4_Original ==
    [][\A p \in Procs :
          (CreateTaken(p) /\ DayIsFull(p))
          => resp'[p] = HTTPException(409, "DayFull")]_vars

\* C4: once a service has DAILY_CAPACITY booked appointments on a date,
\* every further create request for that service and date that asks for a
\* time of the slot catalog, while the date is still in the booking window,
\* is answered DayFull (409) and inserts nothing.
C4_FullDayRefuses ==
    [][\A p \in Procs :
          (CreateTaken(p) /\ DayIsFull(p) /\ DateOk(p) /\ SlotOk(p))
          => /\ resp'[p] = HTTPException(409, "DayFull")
             /\ pc'[p] = "idle"
             /\ appointments' = appointments]_vars

\* a create request for a full day has been answered DayFull
C4_Witness ==
    \E p \in Procs :
        /\ pc[p] = "idle" /\ req[p].op = "create"
        /\ resp[p] = HTTPException(409, "DayFull")
        /\ InSlots(req[p].appt_time)
        /\ count_booked_for_day(appointments, req[p].service_id, req[p].appt_date)
               = DAILY_CAPACITY

\* handler p takes up, right after its create request succeeded, a create
\* request with the same body, on a date that is still allowed
RepeatTaken(p) ==
    /\ CreateTaken(p)
    /\ req[p] = req'[p]
    /\ resp[p].kind = "ok"
    /\ DateOk(p)

\* the slot check of handler p finds the slot booked and answers SlotTaken
RefusedAsTaken(p) ==
    (pc[p] = "check_slot" /\ StepOf(p) /\ BookedFor(req[p]))
    => /\ resp'[p] = HTTPException(409, "SlotTaken")
       /\ pc'[p] = "idle"
       /\ appointments' = appointments

\* a create request for an allowed date, an existing service and a slot of
\* the catalog that no booked appointment occupies goes through every check
\* and inserts one booked appointment
SucceedsWhenFree(p) ==
    /\ (CreateTaken(p) /\ DateOk(p) /\ ServiceOk(p) /\ SlotOk(p) /\ ~SlotIsBooked(p))
       => pc'[p] = "check_slot" /\ appointments' = appointments
    /\ (pc[p] = "check_slot" /\ StepOf(p) /\ ~BookedFor(req[p]))
       => pc'[p] = "insert" /\ appointments' = appointments
    /\ (pc[p] = "insert" /\ StepOf(p))
       => /\ appointments' =
                Append(appointments,
                       Row(req[p].service_id, req[p].appt_date, req[p].appt_time,
                           "booked"))
          /\ resp'[p] = AppointmentOut(Len(appointments) + 1)
          /\ pc'[p] = "idle"

\* C5 as stated: without interleaving, a valid create request for a free slot
\* succeeds with a booked appointment, and the same request made right after
\* it is answered SlotTaken and inserts nothing.
C5_Original ==
    [][\A p \in Procs :
          /\ SucceedsWhenFree(p)
          /\ RepeatTaken(p) => (pc'[p] = "check_slot" /\ appointments' = appointments)
          /\ RefusedAsTaken(p)]_vars

\* C5: without interleaving, a valid create request for a free slot succeeds
\* with a booked appointment, and the same request made right after it
\* inserts nothing and is answered SlotTaken (409), or DayFull (409) when the
\* first request booked the last free slot of the day.
C5_CreateThenRepeat ==
    [][\A p \in Procs :
          /\ SucceedsWhenFree(p)
          /\ RepeatTaken(p)
             => /\ appointments' = appointments
                /\ \/ pc'[p] = "check_slot"
                   \/ /\ resp'[p] = HTTPException(409, "DayFull")
                      /\ pc'[p] = "idle"
                      /\ DayIsFull(p)
          /\ RefusedAsTaken(p)]_vars

\* a create request has inserted the latest appointment, which is booked,
\* and a create request for its slot has been answered SlotTaken
C5_Witness ==
    \E p \in Procs :
        /\ pc[p] = "idle" /\ req[p].op = "create"
        /\ resp[p] = HTTPException(409, "SlotTaken")
        /\ created > 0
        /\ appointments[Len(appointments)] =
              Row(req[p].service_id, req[p].appt_date, req[p].appt_time, "booked")

\* C9: the checks of create_appointment are made in the order date window,
\* service, slot, day capacity, slot conflict, and the answer is the error of
\* the first check that fails.
C9_FirstFailingCheck ==
    [][\A p \in Procs :
          /\ (CreateTaken(p) /\ ~date_format_error(req'[p].appt_date))
             => /\ ~DateOk(p) => resp'[p] = HTTPException(400, "OutOfRange")
                /\ (DateOk(p) /\ ~ServiceOk(p))
                   => resp'[p] = HTTPException(400, "UnknownService")
                /\ (DateOk(p) /\ ServiceOk(p) /\ ~SlotOk(p))
                   => resp'[p] = HTTPException(400, "InvalidSlot")
                /\ (DateOk(p) /\ ServiceOk(p) /\ SlotOk(p) /\ DayIsFull(p))
                   => resp'[p] = HTTPException(409, "DayFull")
                /\ (DateOk(p) /\ ServiceOk(p) /\ SlotOk(p) /\ ~DayIsFull(p))
                   => pc'[p] = "check_slot"
          /\ RefusedAsTaken(p)
          /\ (StepOf(p) /\ resp'[p].kind = "SlotTaken") => pc[p] = "check_slot"]_vars

\* a request that fails three checks at once (date, service and slot) has
\* been answered with the error of the first, and a request for a booked slot
\* of a full day has been answered DayFull
C9_Witness ==
    /\ \E p \in Procs :
          /\ pc[p] = "idle" /\ req[p].op = "create"
          /\ resp[p] = HTTPException(400, "OutOfRange")
          /\ ~get_service(req[p].service_id)
          /\ ~InSlots(req[p].appt_time)

(***************************************************************************)
(* Properties of the calendar.                                             *)
(***************************************************************************)
\* the calendar_load answered for month d, however d was written
AskedMonth(d) ==
    /\ out.answer.op = "calendar_load"
    /\ out.asked[1] \in {strftime_month(d), WriteShortMonth(d)}

\* C11: for every well-formed month and every today, calendar_load accepts
\* the month exactly when it lies between the current month and the third
\* month after it, both included, counting months across the end of the year;
\* every other month is answered OutOfRange (400).
C11_MonthWindow ==
    \A d \in ProbeMonths :
        AskedMonth(d) =>
            IF /\ MonthNumber(today) <= MonthNumber(d)
               /\ MonthNumber(d) <= MonthNumber(today) + ALLOWED_MONTHS_AHEAD
            THEN out.answer.code = 200
            ELSE out.answer = QueryError("calendar_load", 400, "OutOfRange")

\* the third month after the current one, in the next year, has been
\* answered with its days
C11_Witness ==
    \E d \in ProbeMonths :
        /\ AskedMonth(d)
        /\ d[1] = today[1] + 1
        /\ MonthNumber(d) = MonthNumber(today) + ALLOWED_MONTHS_AHEAD
        /\ out.answer.code = 200
        /\ Len(out.answer.days) = DaysInMonth(d[1], d[2])

\* calendar_load has answered with the days of a month
CalendarAnswered == out.answer.op = "calendar_load" /\ out.answer.code = 200

\* the first day of the month that was asked for
AskedFirstDay == CHOOSE d \in ProbeMonths : strftime_month(d) = out.asked[1]

\* the booked appointments of service s whose appt_date names day d
BookedCount(s, d) ==
    Cardinality({i \in DOMAIN appointments :
        /\ Booked(i)
        /\ appointments[i].service_id = s
        /\ appointments[i].appt_date \in {strftime_date(d), WriteShort(d)}})

\* C12: for an allowed month and an existing service, calendar_load returns
\* one record per calendar day of the month, in date order; count is the
\* number of booked appointments of the service on that day, level is Low up
\* to 5, Medium from 6 to 12 and High above 12, is_full is count >=
\* DAILY_CAPACITY, disabled is past or full; without a service every count is
\* 0 and no day is full.
C12_CalendarDays ==
    CalendarAnswered =>
        LET f == AskedFirstDay
            sv == out.asked[2]
            days == out.answer.days
        IN  /\ Len(days) = DaysInMonth(f[1], f[2])
            /\ \A k \in 1..Len(days) :
                  LET d == <<f[1], f[2], k>>
                      c == IF sv = None THEN 0 ELSE BookedCount(sv[1], d)
                      full == sv # None /\ c >= DAILY_CAPACITY
                  IN  /\ days[k].date = strftime_date(d)
                      /\ days[k].count = c
                      /\ days[k].level = (IF c <= 5 THEN "Low"
                                          ELSE IF c <= 12 THEN "Medium" ELSE "High")
                      /\ days[k].is_full = full
                      /\ days[k].disabled = (DateLT(d, today) \/ full)

\* the serial create of the request pl goes through every check
CreateSucceeds(pl) ==
    /\ create_checks(pl, appointments, today) = NoResp
    /\ ~slot_taken(pl, appointments)

\* the slots of the catalog that booked_times does not list for the day
FreeSlots(s, ds) ==
    LET bt == booked_times(appointments, ds, s)
    IN  {k \in 1..Len(ALL_SLOTS) : \A j \in 1..Len(bt) : bt[j] # ALL_SLOTS[k]}

\* every day the calendar leaves enabled is allowed, and each of its free
\* slots can be booked
EnabledDaysBookable ==
    \A k \in 1..Len(out.answer.days) :
        LET day == out.answer.days[k]
            s == out.asked[2][1]
        IN  ~day.disabled
            => /\ is_date_allowed(day.date, today)
               /\ \A t \in FreeSlots(s, day.date) :
                     CreateSucceeds(Payload(s, day.date, ALL_SLOTS[t]))

\* C19 as stated: every day the calendar leaves enabled can be booked at
\* each of its free slots, and on every day it reports full a create request
\* is answered DayFull.
C19_Original ==
    (CalendarAnswered /\ out.asked[2] # None) =>
        /\ EnabledDaysBookable
        /\ \A k \in 1..Len(out.answer.days) :
              LET day == out.answer.days[k]
                  s == out.asked[2][1]
              IN  day.is_full
                  => \A t \in 1..Len(ALL_SLOTS) :
                        create_checks(Payload(s, day.date, ALL_SLOTS[t]),
                                      appointments, today)
                            = HTTPException(409, "DayFull")

\* C19: every day the calendar leaves enabled is accepted by is_date_allowed
\* and can be booked at each catalog slot that booked_times does not list; on
\* every day it reports full that is not before today a create request for a
\* catalog slot is answered DayFull (409), and on a full day before today it
\* is answered OutOfRange (400).
C19_CalendarAgrees ==
    (CalendarAnswered /\ out.asked[2] # None) =>
        /\ EnabledDaysBookable
        /\ \A k \in 1..Len(out.answer.days) :
              LET day == out.answer.days[k]
                  s == out.asked[2][1]
                  d == <<AskedFirstDay[1], AskedFirstDay[2], k>>
              IN  day.is_full
                  => \A t \in 1..Len(ALL_SLOTS) :
                        create_checks(Payload(s, day.date, ALL_SLOTS[t]),
                                      appointments, today)
                            = IF DateLT(d, today)
                              THEN HTTPException(400, "OutOfRange")
                              ELSE HTTPException(409, "DayFull")

\* the calendar of a service shows today full and tomorrow enabled with a
\* booking on it
C19_Witness ==
    /\ CalendarAnswered
    /\ out.asked[2] # None
    /\ \E k, j \in 1..Len(out.answer.days) :
          /\ out.answer.days[k].is_full
          /\ out.answer.days[k].date = strftime_date(today)
          /\ ~out.answer.days[j].disabled
          /\ out.answer.days[j].count > 0

(***************************************************************************)
(* Properties of the booked times and of the slot catalog.                 *)
(***************************************************************************)
\* the minutes since midnight of a time written HH:MM
Minutes(t) == 60 * NumVal(t, 1, 2) + NumVal(t, 4, 5)

\* how often time t occurs in the sequence bt
Occurrences(bt, t) == Cardinality({k \in 1..Len(bt) : bt[k] = t})

BookedTimesAnswered == out.answer.op = "booked_times" /\ out.answer.code = 200

\* C14: booked_times(appt_date, service_id) returns the appt_time of every
\* booked appointment of that service_id and appt_date, once per appointment
\* and nothing else (no cancelled appointment, no other service, no other
\* date), in ascending time order.
C14_BookedTimes ==
    BookedTimesAnswered =>
        LET bt == out.answer.booked_times
            ids == {i \in DOMAIN appointments :
                      /\ Booked(i)
                      /\ appointments[i].service_id = out.asked[2]
                      /\ appointments[i].appt_date = out.asked[1]}
        IN  /\ Len(bt) = Cardinality(ids)
            /\ \A i \in ids :
                  Occurrences(bt, appointments[i].appt_time)
                      = Cardinality({j \in ids : appointments[j].appt_time
                                                   = appointments[i].appt_time})
            /\ \A k \in 1..(Len(bt) - 1) : Minutes(bt[k]) <= Minutes(bt[k + 1])

\* booked_times has answered with two or more times while the ledger holds a
\* cancelled appointment of the same service and date and a booked
\* appointment of the same service on another date
C14_Witness ==
    /\ BookedTimesAnswered
    /\ Len(out.answer.booked_times) >= 2
    /\ \E i, j \in DOMAIN appointments :
          /\ appointments[i].status = "cancelled"
          /\ appointments[i].service_id = out.asked[2]
          /\ appointments[i].appt_date = out.asked[1]
          /\ Booked(j)
          /\ appointments[j].service_id = out.asked[2]
          /\ appointments[j].appt_date # out.asked[1]

\* C16: the slot catalog has 16 slots, from 09:00 to 16:30, each 30 minutes
\* after the one before it (17:00 is not a slot), and DAILY_CAPACITY is its
\* length.
C16_SlotCatalog ==
    out.answer.op = "time_slots" =>
        LET slots == out.answer.slots
        IN  /\ Len(slots) = 16
            /\ slots[1] = <<"0", "9", ":", "0", "0">>
            /\ slots[Len(slots)] = <<"1", "6", ":", "3", "0">>
            /\ \A k \in 1..(Len(slots) - 1) :
                  Minutes(slots[k + 1]) = Minutes(slots[k]) + 30
            /\ \A k \in 1..Len(slots) : slots[k] = strftime_time(Minutes(slots[k]))
            /\ out.answer.daily_capacity = Len(slots)
            /\ DAILY_CAPACITY = Len(generate_slots)

\* get_time_slots has answered with the catalog
C16_Witness ==
    /\ out.answer.op = "time_slots"
    /\ out.answer.slots = generate_slots
    /\ out.answer.daily_capacity = DAILY_CAPACITY

(***************************************************************************)
(* Properties of the ledger under create and cancel.                       *)
(***************************************************************************)
\* C15: every appointment of the ledger, booked or cancelled, has a
\* service_id of the services table and an appt_time of the slot catalog.
C15_RowsWellFormed ==
    \A i \in DOMAIN appointments :
        /\ appointments[i].service_id \in SERVICES
        /\ \E k \in 1..Len(ALL_SLOTS) : ALL_SLOTS[k] = appointments[i].appt_time

\* requests have inserted appointments, one of them is cancelled, and the
\* last request, for a time that is no slot, was refused
C15_Witness ==
    /\ created > 0
    /\ \E i \in DOMAIN appointments : appointments[i].status = "cancelled"
    /\ \E p \in Procs :
          /\ req[p].op = "create"
          /\ resp[p] = HTTPException(400, "InvalidSlot")

\* C17: a create request that is refused changes nothing in the ledger, at
\* any of its steps; a create request that succeeds adds one appointment
\* under an id no appointment had and changes no other appointment.
C17_CreateFrame ==
    [][\A p \in Procs :
          (StepOf(p) /\ req'[p].op = "create")
          => IF pc'[p] = "idle" /\ resp'[p].kind = "ok"
             THEN /\ resp'[p].id \notin DOMAIN appointments
                  /\ DOMAIN appointments' = DOMAIN appointments \cup {resp'[p].id}
                  /\ \A i \in DOMAIN appointments : appointments'[i] = appointments[i]
                  /\ appointments'[resp'[p].id].status = "booked"
             ELSE appointments' = appointments]_vars

\* on a ledger with appointments from before and from this run, a create
\* request has been refused for its date
C17_Witness ==
    /\ created > 0
    /\ Len(appointments) > created
    /\ \E p \in Procs :
          /\ req[p].op = "create"
          /\ resp[p] = HTTPException(400, "OutOfRange")

\* handler p takes up, right after it cancelled a booked appointment, a
\* create request for that appointment's service, date and time, on a date
\* that is still allowed
CreateAfterCancel(p) ==
    /\ CreateTaken(p)
    /\ req[p].op = "cancel" /\ resp[p] = CancelResult /\ row[p] = "booked"
    /\ req[p].appt_id \in DOMAIN appointments
    /\ appointments[req[p].appt_id].status = "cancelled"
    /\ req'[p].service_id = appointments[req[p].appt_id].service_id
    /\ req'[p].appt_date = appointments[req[p].appt_id].appt_date
    /\ req'[p].appt_time = appointments[req[p].appt_id].appt_time
    /\ DateOk(p)

IsTrimOf(t, x) ==
    /\ t # <<>> => (~IsSpace(t[1]) /\ ~IsSpace(t[Len(t)]))
    /\ \E a \in 0..(Len(x) - Len(t)) :
          /\ SubSeq(x, a + 1, a + Len(t)) = t
          /\ \A k \in 1..a : IsSpace(x[k])
          /\ \A k \in (a + Len(t) + 1)..Len(x) : IsSpace(x[k])

\* list_appointments is answered in this step
ListAnswered == out = NoOut /\ out' # NoOut /\ out'.answer.op = "list"

\* C13: after a create request succeeded, list_appointments asked for the
\* phone of that request, as it was given or with whitespace around it,
\* returns a record with the id the create returned, the request's name and
\* phone without the whitespace around them, its situation_type, service_id,
\* appt_date and appt_time as given, and status booked.
C13_CreateThenList ==
    [][\A p \in Procs :
          (/\ ListAnswered
           /\ pc[p] = "idle" /\ req[p].op = "create" /\ resp[p].kind = "ok"
           /\ out'.asked[1] \in {req[p].phone, Surround(req[p].phone)})
          => \E k \in 1..Len(out'.answer.items) :
                LET it == out'.answer.items[k]
                IN  /\ it.id = resp[p].id
                    /\ IsTrimOf(it.patient_name, req[p].patient_name)
                    /\ IsTrimOf(it.phone, req[p].phone)
                    /\ it.situation_type = req[p].situation_type
                    /\ it.service_id = req[p].service_id
                    /\ it.appt_date = req[p].appt_date
                    /\ it.appt_time = req[p].appt_time
                    /\ it.status = "booked"]_vars

\* after a create request whose name and phone had whitespace around them,
\* the query for the phone with other whitespace around it has returned the
\* new appointment and an older one
C13_Witness ==
    \E p \in Procs :
        /\ req[p].op = "create" /\ resp[p].kind = "ok"
        /\ req[p].phone # Phone0 /\ strip(req[p].phone) = Phone0
        /\ req[p].patient_name # strip(req[p].patient_name)
        /\ out.answer.op = "list"
        /\ out.asked[1] = Surround(req[p].phone)
        /\ Len(out.answer.items) >= 2
        /\ \E k \in 1..Len(out.answer.items) : out.answer.items[k].id = resp[p].id

\* C20: every appointment of the ledger has a patient_name of 2 to 60
\* characters and a phone of 6 to 20 characters.
C20_StoredLengths ==
    \A i \in DOMAIN appointments :
        /\ Len(appointments[i].patient_name) >= 2
        /\ Len(appointments[i].patient_name) <= 60
        /\ Len(appointments[i].phone) >= 6
        /\ Len(appointments[i].phone) <= 20

=============================================================================
